---- MODULE Spec2Model ----
(***************************************************************************)
(* A model of the sortable tree: the forest algebra (removeItem,           *)
(* setProperty, forestWithSubtreeInsertedAfter,                            *)
(* forestWithSubtreeInsertedFirstInside, insertSubtreeAt), the flattener   *)
(* (flatten, removeChildrenOf), the projector (getProjection) and the      *)
(* drag handlers of the SortableTree component.                            *)
(*                                                                         *)
(* Conventions.  A TreeItem is a record [id, children, collapsed]; the     *)
(* optional `collapsed` field is a BOOLEAN, FALSE standing for both        *)
(* undefined and false (the code only tests its truthiness and negates     *)
(* it).  The JavaScript values null and undefined are the string NoId      *)
(* where an id is expected, NullItem where a TreeItem is expected and      *)
(* UndefinedItem where a FlattenedItem is expected.  Array positions are   *)
(* 0-based, as in the source; At(arr, i) reads one.                        *)
(***************************************************************************)
EXTENDS Integers, Sequences, FiniteSets, TLC

VARIABLES
  items,            \* the forest held by the App (React state `items`)
  activeId,         \* SortableTree state: id being dragged, or NoId
  overId,           \* SortableTree state: id hovered, or NoId
  offsetLeft,       \* SortableTree state: horizontal drag offset
  currentPosition,  \* SortableTree state: remembered {overId, depth}, or NoPosition
  last              \* history: the operation that produced this state, with its inputs

vars == <<items, activeId, overId, offsetLeft, currentPosition, last>>

----------------------------------------------------------------------------
(* Bounds *)

\* Largest number of nodes in a forest given to the model.
MaxNodes == 3

\* Drag offsets reach this many indentation widths to either side, in half widths.
MaxDragSteps == 2

\* A drag offset far beyond every depth the model has.
FarOffset == 100000

\* getDragDepth is applied to every integer offset up to this size.
MaxFineOffset == 130

\* mapForest's nested calls are followed down to this depth, deeper than any
\* walk that ends on the forests and new nodes of the model.
MaxCallDepth == 12

\* Ids are drawn from this pool, in this order.
IdPool == <<"A", "B", "C", "D", "E", "F", "G">>

Ids == {IdPool[i] : i \in 1..MaxNodes}

----------------------------------------------------------------------------
(* Values *)

\* null / undefined where an id is expected
NoId == "<null>"

\* null where a TreeItem is expected (mapForest's `parent = null`)
NullItem == [id |-> NoId, children |-> <<>>, collapsed |-> FALSE]

\* undefined where a FlattenedItem is expected (an array read out of range)
UndefinedItem == [id |-> NoId, depth |-> 0, collapsed |-> FALSE, item |-> NullItem]

IsUndefined(x) == x.id = NoId

\* arr[i] of JavaScript, i 0-based; undefined out of range
At(arr, i) == IF i >= 0 /\ i < Len(arr) THEN arr[i + 1] ELSE UndefinedItem

\* arr.findIndex(({id}) => id === wanted): first 0-based position, -1 if none
FindIndexById(arr, wanted) ==
  IF \E i \in 1..Len(arr) : arr[i].id = wanted
  THEN (CHOOSE i \in 1..Len(arr) :
          arr[i].id = wanted /\ \A j \in 1..(i - 1) : arr[j].id # wanted) - 1
  ELSE -1

\* The Error thrown by insertSubtreeAt on an unknown destination kind.  It stands
\* where a forest would be returned, so it is written as a sequence: one entry
\* whose id is the message, which no node has
ThrownError ==
  <<[id |-> "Error: destination.kind must be one of the above",
     children |-> <<>>, collapsed |-> FALSE]>>

----------------------------------------------------------------------------
(* Forests with unique ids: the inputs of the model *)

RECURSIVE ForestsOver(_)
\* every forest whose set of node ids is exactly S, each id once
ForestsOver(S) ==
  IF S = {} THEN {<<>>}
  ELSE UNION { UNION { { <<[id |-> r, children |-> kids, collapsed |-> c]>> \o rest :
                           kids \in ForestsOver(T \ {r}),
                           rest \in ForestsOver(S \ T),
                           c \in BOOLEAN }
                       : r \in T }
               : T \in (SUBSET S) \ {{}} }

\* every forest with unique ids drawn from Ids
AllForests == UNION { ForestsOver(S) : S \in SUBSET Ids }

RECURSIVE NoneCollapsed(_)
NoneCollapsed(forest) ==
  \A i \in 1..Len(forest) :
    ~forest[i].collapsed /\ NoneCollapsed(forest[i].children)

\* the forests an App starts from: no node has `collapsed` set
InitialForests == {f \in AllForests : NoneCollapsed(f)}

----------------------------------------------------------------------------
(* Forest algebra *)
(* The functions given to mapForest are closures.  A closure is a record:  *)
(* `lambda` names the function that builds it, the other fields are the    *)
(* values it captures; its body is the operator <builder>_fn, and mapForest *)
(* calls it through CallListFn.                                            *)

\* setProperty's `c => !c` (handleCollapse)
CallUpdate(fn, value) ==
  CASE fn.lambda = "c => !c" -> ~value

\* removeItem written with splice(findIndex(...), 1): splice(-1, 1) drops the
\* last element of a list that does not hold the id
removeItem_fn_splice(forest, id) ==
  LET index == FindIndexById(forest, id)
  IN  IF index = -1
      THEN SubSeq(forest, 1, Len(forest) - 1)
      ELSE SubSeq(forest, 1, index) \o SubSeq(forest, index + 2, Len(forest))

\* removeItem: forest => forest.filter(t => t.id !== id)
removeItem_fn(forest, id) ==
  SelectSeq(forest, LAMBDA t : t.id # id)

\* setProperty's node function without the test on the id
setProperty_fn_everyNode(node, id, property, fn) ==
  [node EXCEPT ![property] = CallUpdate(fn, node[property])]

\* setProperty: node => node.id === id ? {...node, [property]: fn(node[property])} : node
setProperty_fn(node, id, property, fn) ==
  IF node.id = id
  THEN [node EXCEPT ![property] = CallUpdate(fn, node[property])]
  ELSE node

\* mapForestByTree: child => child.map(fn)
mapForestByTree_fn(child, fn) ==
  [i \in 1..Len(child) |-> setProperty_fn(child[i], fn.id, fn.property, fn.fn)]

\* forestWithSubtreeInsertedAfter that splices at sibIndex instead of sibIndex + 1
forestWithSubtreeInsertedAfter_fn_before(children, addend, sibling) ==
  LET sibIndex == FindIndexById(children, sibling.id)
  IN  IF sibIndex = -1
      THEN children
      ELSE SubSeq(children, 1, sibIndex) \o <<addend>>
             \o SubSeq(children, sibIndex + 1, Len(children))

\* forestWithSubtreeInsertedAfter: children => { findIndex; slice; splice(sibIndex + 1, 0, addend) }
forestWithSubtreeInsertedAfter_fn(children, addend, sibling) ==
  LET sibIndex == FindIndexById(children, sibling.id)
  IN  IF sibIndex = -1
      THEN children
      ELSE SubSeq(children, 1, sibIndex + 1) \o <<addend>>
             \o SubSeq(children, sibIndex + 2, Len(children))

\* forestWithSubtreeInsertedFirstInside that always appends
forestWithSubtreeInsertedFirstInside_fn_append(children, node, addend, parent) ==
  IF node.id = parent.id THEN children \o <<addend>> ELSE children

\* forestWithSubtreeInsertedFirstInside that always prepends (the older variant)
forestWithSubtreeInsertedFirstInside_fn_prepend(children, node, addend, parent) ==
  IF node.id = parent.id THEN <<addend>> \o children ELSE children

\* forestWithSubtreeInsertedFirstInside without the test on the parent: the
\* addend is put first in every sibling list
forestWithSubtreeInsertedFirstInside_fn_anyNode(children, node, addend, parent) ==
  <<addend>> \o children

\* forestWithSubtreeInsertedFirstInside: (children, node) =>
\*   node?.id === parent?.id ? (node?.collapsed ? [...children, addend] : [addend, ...children])
\*                           : children
forestWithSubtreeInsertedFirstInside_fn(children, node, addend, parent) ==
  IF node.id = parent.id
  THEN IF node.collapsed THEN children \o <<addend>> ELSE <<addend>> \o children
  ELSE children

\* the older forestWithSubtreeInsertedFirstInside: (children, node) =>
\*   node?.id === parent?.id ? [addend, ...children] : children
forestWithSubtreeInsertedFirstInsideOlder_fn(children, node, addend, parent) ==
  IF node.id = parent.id THEN <<addend>> \o children ELSE children

\* fn(forest, parent) for a closure fn given to mapForest
CallListFn(fn, forest, parent) ==
  CASE fn.lambda = "removeItem" ->
         removeItem_fn(forest, fn.id)
    [] fn.lambda = "mapForestByTree" ->
         mapForestByTree_fn(forest, fn.fn)
    [] fn.lambda = "forestWithSubtreeInsertedAfter" ->
         forestWithSubtreeInsertedAfter_fn(forest, fn.addend, fn.sibling)
    [] fn.lambda = "forestWithSubtreeInsertedFirstInside" ->
         forestWithSubtreeInsertedFirstInside_fn(forest, parent, fn.addend, fn.parent)
    [] fn.lambda = "forestWithSubtreeInsertedFirstInsideOlder" ->
         forestWithSubtreeInsertedFirstInsideOlder_fn(forest, parent, fn.addend, fn.parent)

RECURSIVE mapForest(_, _, _)
mapForest(forest, fn, parent) ==
  LET mapped == CallListFn(fn, forest, parent)
  IN  [i \in 1..Len(mapped) |->
         [mapped[i] EXCEPT !.children = mapForest(mapped[i].children, fn, mapped[i])]]

\* removeItem that filters the root list only
removeItemRootOnly(root, id) ==
  removeItem_fn(root, id)

removeItem(root, id) ==
  mapForest(root, [lambda |-> "removeItem", id |-> id], NullItem)

mapForestByTree(forest, fn) ==
  mapForest(forest, [lambda |-> "mapForestByTree", fn |-> fn], NullItem)

setProperty(root, id, property, fn) ==
  mapForestByTree(root, [lambda |-> "setProperty", id |-> id, property |-> property, fn |-> fn])

forestWithSubtreeInsertedAfter(root, addend, sibling) ==
  mapForest(root,
            [lambda |-> "forestWithSubtreeInsertedAfter", addend |-> addend, sibling |-> sibling],
            NullItem)

forestWithSubtreeInsertedFirstInside(forest, addend, parent) ==
  mapForest(forest,
            [lambda |-> "forestWithSubtreeInsertedFirstInside", addend |-> addend, parent |-> parent],
            NullItem)

\* insertSubtreeAt that returns the forest as it is for an unknown kind
insertSubtreeAtSilent(forest, addend, destination) ==
  IF destination.kind = "after"
  THEN forestWithSubtreeInsertedAfter(forest, addend, destination.sibling)
  ELSE IF destination.kind = "firstChildOf"
  THEN forestWithSubtreeInsertedFirstInside(forest, addend, destination.parent)
  ELSE forest

\* insertSubtreeAt that puts the addend inside the sibling an 'after' names
insertSubtreeAtNested(forest, addend, destination) ==
  IF destination.kind = "after"
  THEN forestWithSubtreeInsertedFirstInside(forest, addend, destination.sibling)
  ELSE IF destination.kind = "firstChildOf"
  THEN forestWithSubtreeInsertedFirstInside(forest, addend, destination.parent)
  ELSE ThrownError

insertSubtreeAt(forest, addend, destination) ==
  IF destination.kind = "after"
  THEN forestWithSubtreeInsertedAfter(forest, addend, destination.sibling)
  ELSE IF destination.kind = "firstChildOf"
  THEN forestWithSubtreeInsertedFirstInside(forest, addend, destination.parent)
  ELSE ThrownError

----------------------------------------------------------------------------
(* Size / lookup helpers *)

\* getSubtreeSize that counts the item and its children only
getSubtreeSizeOneLevel(item) == Len(item.children) + 1

RECURSIVE getSubtreeSize(_)
RECURSIVE sumBy_getSubtreeSize(_)
\* sumBy(children, c => getSubtreeSize(c))
sumBy_getSubtreeSize(children) ==
  IF children = <<>> THEN 0
  ELSE getSubtreeSize(Head(children)) + sumBy_getSubtreeSize(Tail(children))

\* sumBy(item.children, c => getSubtreeSize(c)) + 1
getSubtreeSize(item) == sumBy_getSubtreeSize(item.children) + 1

RECURSIVE findItemDeep(_, _)
\* the first match of a depth-first search, NullItem (undefined) if there is none
findItemDeep(forest, itemId) ==
  IF forest = <<>> THEN NullItem
  ELSE IF Head(forest).id = itemId THEN Head(forest)
  ELSE LET child == IF Head(forest).children # <<>>
                    THEN findItemDeep(Head(forest).children, itemId)
                    ELSE NullItem
       IN  IF child # NullItem THEN child ELSE findItemDeep(Tail(forest), itemId)

----------------------------------------------------------------------------
(* Flattener *)

RECURSIVE flattenDoubleStep(_, _)
\* flatten that gives the children of an item the depth of the item plus two
flattenDoubleStep(list, depth) ==
  IF list = <<>> THEN <<>>
  ELSE <<[id |-> Head(list).id, collapsed |-> Head(list).collapsed,
          item |-> Head(list), depth |-> depth]>>
         \o flattenDoubleStep(Head(list).children, depth + 2)
         \o flattenDoubleStep(Tail(list), depth)

RECURSIVE flattenSiblingsFirst(_, _)
\* flatten that lists the later siblings of an item before the item's children
flattenSiblingsFirst(list, depth) ==
  IF list = <<>> THEN <<>>
  ELSE <<[id |-> Head(list).id, collapsed |-> Head(list).collapsed,
          item |-> Head(list), depth |-> depth]>>
         \o flattenSiblingsFirst(Tail(list), depth)
         \o flattenSiblingsFirst(Head(list).children, depth + 1)

RECURSIVE flatten(_, _)
\* items.reduce((acc, item) => [...acc, {id, collapsed, item, depth}, ...flatten(item.children, depth + 1)], [])
flatten(list, depth) ==
  IF list = <<>> THEN <<>>
  ELSE <<[id |-> Head(list).id, collapsed |-> Head(list).collapsed,
          item |-> Head(list), depth |-> depth]>>
         \o flatten(Head(list).children, depth + 1)
         \o flatten(Tail(list), depth)

flattenTree(forest) == flatten(forest, 0)

\* `skip_until_depth = null`
SkipNull == -1

RECURSIVE removeChildrenOfLoopStrict(_, _, _)
\* removeChildrenOf with `item.depth < skip_until_depth`: the next sibling of an
\* excluded item is skipped too
removeChildrenOfLoopStrict(rest, excludeParentIds, skip_until_depth) ==
  IF rest = <<>> THEN <<>>
  ELSE LET item == Head(rest)
       IN  IF skip_until_depth = SkipNull \/ item.depth < skip_until_depth
           THEN <<item>> \o removeChildrenOfLoopStrict(Tail(rest), excludeParentIds,
                              IF item.id \in excludeParentIds THEN item.depth ELSE SkipNull)
           ELSE removeChildrenOfLoopStrict(Tail(rest), excludeParentIds, skip_until_depth)

RECURSIVE removeChildrenOfLoopSticky(_, _, _)
\* removeChildrenOf that does not set skip_until_depth back to null when it
\* pushes an item that is not excluded
removeChildrenOfLoopSticky(rest, excludeParentIds, skip_until_depth) ==
  IF rest = <<>> THEN <<>>
  ELSE LET item == Head(rest)
       IN  IF skip_until_depth = SkipNull \/ item.depth <= skip_until_depth
           THEN <<item>> \o removeChildrenOfLoopSticky(Tail(rest), excludeParentIds,
                              IF item.id \in excludeParentIds THEN item.depth
                              ELSE skip_until_depth)
           ELSE removeChildrenOfLoopSticky(Tail(rest), excludeParentIds, skip_until_depth)

RECURSIVE removeChildrenOfLoop(_, _, _)
\* the for loop of removeChildrenOf over the rest of the items: what it pushes
removeChildrenOfLoop(rest, excludeParentIds, skip_until_depth) ==
  IF rest = <<>> THEN <<>>
  ELSE LET item == Head(rest)
       IN  IF skip_until_depth = SkipNull \/ item.depth <= skip_until_depth
           THEN <<item>> \o removeChildrenOfLoop(Tail(rest), excludeParentIds,
                              IF item.id \in excludeParentIds THEN item.depth ELSE SkipNull)
           ELSE removeChildrenOfLoop(Tail(rest), excludeParentIds, skip_until_depth)

removeChildrenOf(list, ids) ==
  removeChildrenOfLoop(list, ids, SkipNull)

----------------------------------------------------------------------------
(* Projector *)

Max(a, b) == IF a >= b THEN a ELSE b
Min(a, b) == IF a <= b THEN a ELSE b

\* getDragDepth written with Math.floor
getDragDepthFloor(offset, indentationWidth) ==
  offset \div indentationWidth

\* Math.round(offset / indentationWidth) for integers, indentationWidth > 0:
\* Math.round(x) is floor(x + 0.5)
getDragDepth(offset, indentationWidth) ==
  (2 * offset + indentationWidth) \div (2 * indentationWidth)

\* clamp that applies the lower bound only
clampLowerOnly(number, lower, upper) ==
  IF number >= lower THEN number ELSE lower

\* lodash clamp(number, lower, upper): the upper bound is applied first, then the lower
clamp(number, lower, upper) ==
  LET capped == IF number <= upper THEN number ELSE upper
  IN  IF capped >= lower THEN capped ELSE lower

\* Array.prototype.splice's start position for an array of length n
SpliceStart(start, n) == IF start < 0 THEN Max(n + start, 0) ELSE Min(start, n)

\* @dnd-kit/sortable arrayMove(array, from, to):
\*   newArray = array.slice();
\*   newArray.splice(to < 0 ? newArray.length + to : to, 0, newArray.splice(from, 1)[0]);
arrayMove(array, from, to) ==
  LET n == Len(array)
      target == IF to < 0 THEN n + to ELSE to
      cut == SpliceStart(from, n)
      removed == At(array, cut)
      rest == SubSeq(array, 1, cut) \o SubSeq(array, cut + 2, n)
      at == SpliceStart(target, Len(rest))
  IN  SubSeq(rest, 1, at) \o <<removed>> \o SubSeq(rest, at + 1, Len(rest))

\* what findLast's predicate `item.depth <= depth` throws when the item it is
\* given is undefined; it stands where a FlattenedItem would be returned
TypeErrorItem ==
  [id |-> "TypeError: Cannot read properties of undefined (reading 'depth')",
   depth |-> 0, collapsed |-> FALSE, item |-> NullItem]

\* the same TypeError where getProjection would return its result
ThrownTypeError ==
  [error |-> "TypeError: Cannot read properties of undefined (reading 'depth')"]

IsThrown(result) == "error" \in DOMAIN result

\* findLast called without fromIndex: the scan starts at the end of the array
findLastFromEnd(array, depth, fromIndex) ==
  LET n == Len(array)
      hits == {i \in 0..(n - 1) : array[i + 1].depth <= depth}
  IN  IF hits = {} THEN UndefinedItem
      ELSE At(array, CHOOSE i \in hits : \A j \in hits : j <= i)

\* lodash findLast(array, item => item.depth <= depth, fromIndex):
\* the scan starts at fromIndex (from the end when negative) and goes down to 0
findLast(array, depth, fromIndex) ==
  LET n == Len(array)
      index == IF fromIndex < 0 THEN Max(n + fromIndex, 0) ELSE Min(fromIndex, n - 1)
      hits == {i \in 0..index :
                 i < n /\ (IsUndefined(array[i + 1]) \/ array[i + 1].depth <= depth)}
      found == At(array, CHOOSE i \in hits : \A j \in hits : j <= i)
  IN  IF hits = {} THEN UndefinedItem
      ELSE IF IsUndefined(found) THEN TypeErrorItem
      ELSE found

\* getMaxDepth without the `+ 1`: no deeper than the previous item
getMaxDepthOfSibling(previousItem) ==
  IF IsUndefined(previousItem) THEN 0 ELSE previousItem.depth

getMaxDepth(previousItem) ==
  IF IsUndefined(previousItem) THEN 0 ELSE previousItem.depth + 1

getMinDepth(nextItem) ==
  IF IsUndefined(nextItem) THEN 0 ELSE nextItem.depth

\* getProjection whose isNoOp does not compare the depths
getProjectionSameIdIsNoOp(list, active, over, dragOffset, indentationWidth) ==
  LET overItemIndex == FindIndexById(list, over)
      activeItemIndex == FindIndexById(list, active)
      newItems == arrayMove(list, activeItemIndex, overItemIndex)
      previousItem == At(newItems, overItemIndex - 1)
      nextItem == At(newItems, overItemIndex + 1)
      activeItemDepth == At(list, activeItemIndex).depth
      dragDepth == getDragDepth(dragOffset, indentationWidth)
      projectedDepth == activeItemDepth + dragDepth
      maxDepth == getMaxDepth(previousItem)
      minDepth == getMinDepth(nextItem)
      depth == clamp(projectedDepth, minDepth, maxDepth)
      isNoOp == over = active
      predecessor == IF overItemIndex = 0 THEN UndefinedItem
                     ELSE findLast(newItems, depth, overItemIndex - 1)
      destination ==
        IF IsUndefined(predecessor) THEN [kind |-> "firstChildOf", parent |-> NullItem]
        ELSE IF predecessor.depth < depth
             THEN [kind |-> "firstChildOf", parent |-> predecessor.item]
             ELSE [kind |-> "after", sibling |-> predecessor.item]
  IN  [depth |-> depth, maxDepth |-> maxDepth, minDepth |-> minDepth,
       isNoOp |-> isNoOp, destination |-> destination]

\* getProjection that never reports a no-op
getProjectionNeverNoOp(list, active, over, dragOffset, indentationWidth) ==
  LET overItemIndex == FindIndexById(list, over)
      activeItemIndex == FindIndexById(list, active)
      newItems == arrayMove(list, activeItemIndex, overItemIndex)
      previousItem == At(newItems, overItemIndex - 1)
      nextItem == At(newItems, overItemIndex + 1)
      activeItemDepth == At(list, activeItemIndex).depth
      dragDepth == getDragDepth(dragOffset, indentationWidth)
      projectedDepth == activeItemDepth + dragDepth
      maxDepth == getMaxDepth(previousItem)
      minDepth == getMinDepth(nextItem)
      depth == clamp(projectedDepth, minDepth, maxDepth)
      isNoOp == FALSE
      predecessor == IF overItemIndex = 0 THEN UndefinedItem
                     ELSE findLast(newItems, depth, overItemIndex - 1)
      destination ==
        IF IsUndefined(predecessor) THEN [kind |-> "firstChildOf", parent |-> NullItem]
        ELSE IF predecessor.depth < depth
             THEN [kind |-> "firstChildOf", parent |-> predecessor.item]
             ELSE [kind |-> "after", sibling |-> predecessor.item]
  IN  IF predecessor = TypeErrorItem
      THEN ThrownTypeError
      ELSE [depth |-> depth, maxDepth |-> maxDepth, minDepth |-> minDepth,
            isNoOp |-> isNoOp, destination |-> destination]

getProjection(list, active, over, dragOffset, indentationWidth) ==
  LET overItemIndex == FindIndexById(list, over)
      activeItemIndex == FindIndexById(list, active)
      newItems == arrayMove(list, activeItemIndex, overItemIndex)
      previousItem == At(newItems, overItemIndex - 1)
      nextItem == At(newItems, overItemIndex + 1)
      activeItemDepth == At(list, activeItemIndex).depth
      dragDepth == getDragDepth(dragOffset, indentationWidth)
      projectedDepth == activeItemDepth + dragDepth
      maxDepth == getMaxDepth(previousItem)
      minDepth == getMinDepth(nextItem)
      depth == clamp(projectedDepth, minDepth, maxDepth)
      isNoOp == over = active /\ depth = activeItemDepth
      predecessor == IF overItemIndex = 0 THEN UndefinedItem
                     ELSE findLast(newItems, depth, overItemIndex - 1)
      destination ==
        IF IsUndefined(predecessor) THEN [kind |-> "firstChildOf", parent |-> NullItem]
        ELSE IF predecessor.depth < depth
             THEN [kind |-> "firstChildOf", parent |-> predecessor.item]
             ELSE [kind |-> "after", sibling |-> predecessor.item]
  IN  IF predecessor = TypeErrorItem
      THEN ThrownTypeError
      ELSE [depth |-> depth, maxDepth |-> maxDepth, minDepth |-> minDepth,
            isNoOp |-> isNoOp, destination |-> destination]

----------------------------------------------------------------------------
(* SortableTree: what a render derives from the state *)

\* the default of the indentationWidth prop
indentationWidth == 50

\* collapsedItems that is always empty
collapsedItemsNone(flattenedTree) == {}

\* flattenedTree.filter(e => e.collapsed).map(e => e.id)
collapsedItems(flattenedTree) ==
  LET kept == SelectSeq(flattenedTree, LAMBDA e : e.collapsed)
  IN  {kept[i].id : i \in 1..Len(kept)}

\* flattenedItems that leaves the descendants of the active item in
flattenedItemsWithActiveSubtree(forest, active) ==
  LET flattenedTree == flattenTree(forest)
  IN  removeChildrenOf(flattenedTree, collapsedItems(flattenedTree))

\* useMemo: the flattened forest without the descendants of the active item and
\* of the collapsed items
flattenedItems(forest, active) ==
  LET flattenedTree == flattenTree(forest)
  IN  removeChildrenOf(flattenedTree,
        IF active # NoId
        THEN {active} \cup collapsedItems(flattenedTree)
        ELSE collapsedItems(flattenedTree))

\* the ids of the rendered rows: SortableContext items, the draggables and droppables
sortedIds(forest, active) ==
  LET list == flattenedItems(forest, active)
  IN  {list[i].id : i \in 1..Len(list)}

----------------------------------------------------------------------------
(* Observers of a forest, used to state the properties *)

RECURSIVE Nodes(_)
\* every node (as a TreeItem record) of a forest
Nodes(forest) ==
  UNION { {forest[i]} \cup Nodes(forest[i].children) : i \in 1..Len(forest) }

NodeIds(forest) == {n.id : n \in Nodes(forest)}

RECURSIVE CountId(_, _)
\* how many nodes of the forest carry the id
CountId(forest, id) ==
  IF forest = <<>> THEN 0
  ELSE (IF Head(forest).id = id THEN 1 ELSE 0)
       + CountId(Head(forest).children, id) + CountId(Tail(forest), id)

UniqueIds(forest) == \A id \in NodeIds(forest) : CountId(forest, id) = 1

IdsOf(list) == [i \in 1..Len(list) |-> list[i].id]

\* the set of ids of the rows of a flattened sequence
IdsOfRows(list) == {list[i].id : i \in 1..Len(list)}

\* the ids of the sibling list below parent p (NoId: the root list), in order
ChildIds(forest, p) ==
  IF p = NoId THEN IdsOf(forest)
  ELSE IdsOf((CHOOSE n \in Nodes(forest) : n.id = p).children)

\* the ids of the nodes strictly below the node with id x
DescendantIds(forest, x) ==
  UNION { NodeIds(n.children) : n \in {m \in Nodes(forest) : m.id = x} }

SubtreeIds(forest, x) == (IF x \in NodeIds(forest) THEN {x} ELSE {}) \cup DescendantIds(forest, x)

\* the id of the parent of the node with id x, NoId for a root
ParentId(forest, x) ==
  IF \E n \in Nodes(forest) : \E i \in 1..Len(n.children) : n.children[i].id = x
  THEN (CHOOSE n \in Nodes(forest) : \E i \in 1..Len(n.children) : n.children[i].id = x).id
  ELSE NoId

\* the `collapsed` flag of every node, by id
Flags(forest) == {<<n.id, n.collapsed>> : n \in Nodes(forest)}

\* a sequence of ids with the ids of a set left out
WithoutIds(idseq, S) == SelectSeq(idseq, LAMBDA i : i \notin S)

----------------------------------------------------------------------------
(* SpecAlgebra: each forest-algebra function applied once to bounded inputs *)

NoPosition == [overId |-> NoId, depth |-> -1]

Idle == /\ activeId = NoId
        /\ overId = NoId
        /\ offsetLeft = 0
        /\ currentPosition = NoPosition

InitAlgebra ==
  /\ items \in AllForests
  /\ Idle
  /\ last = [op |-> "input"]

\* removeItem(items, id), for an id that is in the forest or not
ApplyRemove ==
  /\ last.op = "input"
  /\ \E id \in Ids :
       /\ items' = removeItem(items, id)
       /\ last' = [op |-> "removeItem", before |-> items, id |-> id]
  /\ UNCHANGED <<activeId, overId, offsetLeft, currentPosition>>

\* setProperty(items, id, 'collapsed', c => !c), for an id that is in the forest or not
ApplySetProperty ==
  /\ last.op = "input"
  /\ \E id \in Ids :
       /\ items' = setProperty(items, id, "collapsed", [lambda |-> "c => !c"])
       /\ last' = [op |-> "setProperty", before |-> items, id |-> id]
  /\ UNCHANGED <<activeId, overId, offsetLeft, currentPosition>>

\* a TreeItem that is not in the forest, with the given id
Stranger(id) == [id |-> id, children |-> <<>>, collapsed |-> FALSE]

\* the trees whose ids are not in the forest: the nodes that can be added to it
NewTrees(forest) ==
  UNION { {f[1] : f \in {g \in ForestsOver(S) : Len(g) = 1}} :
            S \in (SUBSET (Ids \ NodeIds(forest))) \ {{}} }

\* the TreeItems an After(sibling) can name: a node of the forest or a stranger
Siblings(forest) == Nodes(forest) \cup {Stranger(id) : id \in Ids \ NodeIds(forest)}

\* the TreeItems a FirstChildOf(parent) can name: null, a node of the forest or a stranger
Parents(forest) == {NullItem} \cup Siblings(forest)

Destinations(forest) ==
  {[kind |-> "after", sibling |-> s] : s \in Siblings(forest)}
    \cup {[kind |-> "firstChildOf", parent |-> p] : p \in Parents(forest)}

\* insertSubtreeAt(items, addend, destination), for a new node and any destination
ApplyInsert ==
  /\ last.op = "input"
  /\ \E addend \in NewTrees(items) : \E destination \in Destinations(items) :
       /\ items' = insertSubtreeAt(items, addend, destination)
       /\ last' = [op |-> "insertSubtreeAt", before |-> items,
                   addend |-> addend, destination |-> destination]
  /\ UNCHANGED <<activeId, overId, offsetLeft, currentPosition>>

\* App's handleMove(activeItem, destination), for a node of the forest and any destination
ApplyMove ==
  /\ last.op = "input"
  /\ \E activeItem \in Nodes(items) : \E destination \in Destinations(items) :
       /\ items' = insertSubtreeAt(removeItem(items, activeItem.id), activeItem, destination)
       /\ last' = [op |-> "handleMove", before |-> items,
                   addend |-> activeItem, destination |-> destination]
  /\ UNCHANGED <<activeId, overId, offsetLeft, currentPosition>>

\* destination kinds that TreePosition does not have
UnknownKinds == {"before", "lastChildOf"}

\* insertSubtreeAt(items, addend, destination) for a destination whose kind is
\* neither 'after' nor 'firstChildOf'; what it throws is not stored
ApplyInsertUnknownKind ==
  /\ last.op = "input"
  /\ \E addend \in Siblings(items) : \E kind \in UnknownKinds :
       LET destination == [kind |-> kind, parent |-> NullItem]
       IN  last' = [op |-> "insertSubtreeAtUnknownKind", before |-> items,
                    addend |-> addend, destination |-> destination,
                    result |-> insertSubtreeAt(items, addend, destination)]
  /\ UNCHANGED <<items, activeId, overId, offsetLeft, currentPosition>>

NextAlgebra ==
  \/ ApplyRemove
  \/ ApplySetProperty
  \/ ApplyInsert
  \/ ApplyInsertUnknownKind
  \/ ApplyMove

SpecAlgebra == InitAlgebra /\ [][NextAlgebra]_vars

----------------------------------------------------------------------------
(* SpecSequence: the forest-algebra functions applied one after another *)

InitSequence ==
  /\ items \in InitialForests
  /\ Idle
  /\ last = [op |-> "init"]

\* items => removeItem(items, id)
SeqRemoveItem ==
  /\ \E id \in Ids : items' = removeItem(items, id)
  /\ last' = [op |-> "removeItem"]
  /\ UNCHANGED <<activeId, overId, offsetLeft, currentPosition>>

\* items => setProperty(items, id, 'collapsed', c => !c)
SeqSetProperty ==
  /\ \E id \in Ids : items' = setProperty(items, id, "collapsed", [lambda |-> "c => !c"])
  /\ last' = [op |-> "setProperty"]
  /\ UNCHANGED <<activeId, overId, offsetLeft, currentPosition>>

\* items => insertSubtreeAt(removeItem(items, activeItem.id), activeItem, destination)
SeqMove ==
  /\ \E activeItem \in Nodes(items) : \E destination \in Destinations(items) :
       items' = insertSubtreeAt(removeItem(items, activeItem.id), activeItem, destination)
  /\ last' = [op |-> "handleMove"]
  /\ UNCHANGED <<activeId, overId, offsetLeft, currentPosition>>

NextSequence ==
  \/ SeqRemoveItem
  \/ SeqSetProperty
  \/ SeqMove

SpecSequence == InitSequence /\ [][NextSequence]_vars

----------------------------------------------------------------------------
(* SpecProjection: the flattener and the projector applied once to bounded inputs *)

Leaf(id) == [id |-> id, children |-> <<>>, collapsed |-> FALSE]

Branch(id, children) == [id |-> id, children |-> children, collapsed |-> FALSE]

\* [A[B[C, D], E]]
NestedExample == <<Branch("A", <<Branch("B", <<Leaf("C"), Leaf("D")>>), Leaf("E")>>)>>

\* the horizontal offsets of a drag: every half indentation width up to
\* MaxDragSteps widths to either side, and one far offset to either side
DragOffsets ==
  {k * (indentationWidth \div 2) : k \in (-2 * MaxDragSteps)..(2 * MaxDragSteps)}
    \cup {-FarOffset, FarOffset}

\* the indentation widths getDragDepth is applied to
Widths == {1, 2, 3, 20, indentationWidth}

\* [Home, Collections[Spring, Summer], About]
CollectionsExample ==
  <<Leaf("Home"), Branch("Collections", <<Leaf("Spring"), Leaf("Summer")>>), Leaf("About")>>

InitProjection ==
  /\ items \in AllForests \cup {NestedExample, CollectionsExample}
  /\ Idle
  /\ last = [op |-> "input"]

\* getProjection(flattenedItems, activeId, overId, offsetLeft, indentationWidth) for
\* a rendered row as active item and a row rendered during that drag as over item
ApplyProjection ==
  /\ last.op = "input"
  /\ \E active \in sortedIds(items, NoId) :
       \E over \in sortedIds(items, active) :
         \E offset \in DragOffsets :
           /\ activeId' = active
           /\ overId' = over
           /\ offsetLeft' = offset
           /\ last' = [op |-> "getProjection",
                       list |-> flattenedItems(items, active),
                       projected |-> getProjection(flattenedItems(items, active),
                                                   active, over, offset, indentationWidth)]
  /\ UNCHANGED <<items, currentPosition>>

\* getDragDepth(offset, indentationWidth); it reads no forest, so it is applied
\* beside the empty one only
ApplyDragDepth ==
  /\ last.op = "input"
  /\ items = <<>>
  /\ \E offset \in (-MaxFineOffset)..MaxFineOffset : \E width \in Widths :
       /\ offsetLeft' = offset
       /\ last' = [op |-> "getDragDepth", width |-> width,
                   dragDepth |-> getDragDepth(offset, width)]
  /\ UNCHANGED <<items, activeId, overId, currentPosition>>

\* removeChildrenOf(flattenTree(items), ids)
ApplyRemoveChildrenOf ==
  /\ last.op = "input"
  /\ \E ids \in SUBSET NodeIds(items) :
       last' = [op |-> "removeChildrenOf", ids |-> ids,
                list |-> flattenTree(items),
                filtered |-> removeChildrenOf(flattenTree(items), ids)]
  /\ UNCHANGED <<items, activeId, overId, offsetLeft, currentPosition>>

\* flattenTree(items)
ApplyFlatten ==
  /\ last.op = "input"
  /\ last' = [op |-> "flattenTree", list |-> flattenTree(items)]
  /\ UNCHANGED <<items, activeId, overId, offsetLeft, currentPosition>>

\* getProjection(flattenedItems, X, X, 0, unit): a rendered row held over itself
\* with no horizontal offset, for each indentation width
ApplyProjectionInPlace ==
  /\ last.op = "input"
  /\ \E active \in sortedIds(items, NoId) : \E width \in Widths :
       /\ activeId' = active
       /\ overId' = active
       /\ last' = [op |-> "getProjectionInPlace", width |-> width,
                   list |-> flattenedItems(items, active),
                   projected |-> getProjection(flattenedItems(items, active),
                                               active, active, 0, width)]
  /\ UNCHANGED <<items, offsetLeft, currentPosition>>

\* getProjection over the rows without the active one, and the move commit
\* with its destination, for [Home, Collections[Spring, Summer], About]
ApplyProjectionWithoutActive ==
  /\ last.op = "input"
  /\ items = CollectionsExample
  /\ \E active \in sortedIds(items, NoId) :
       \E over \in sortedIds(items, active) \ {active} :
         \E offset \in DragOffsets :
           LET list == SelectSeq(flattenedItems(items, active), LAMBDA e : e.id # active)
               p == getProjection(list, active, over, offset, indentationWidth)
           IN  /\ activeId' = active
               /\ overId' = over
               /\ offsetLeft' = offset
               /\ last' = [op |-> "getProjectionWithoutActive", list |-> list,
                           projected |-> p,
                           committed |-> insertSubtreeAt(removeItem(items, active),
                                                         findItemDeep(items, active),
                                                         p.destination)]
  /\ UNCHANGED <<items, currentPosition>>

\* getProjection for an activeId or an overId that no row has: an id that is
\* not in the forest, or one hidden below the active row
ApplyProjectionAbsentId ==
  /\ last.op = "input"
  /\ items \in InitialForests
  /\ \E active \in Ids : \E over \in Ids : \E offset \in {0, indentationWidth} :
       LET list == flattenedItems(items, active)
           rows == {list[i].id : i \in 1..Len(list)}
       IN  /\ active \notin rows \/ over \notin rows
           /\ activeId' = active
           /\ overId' = over
           /\ offsetLeft' = offset
           /\ last' = [op |-> "getProjectionAbsentId", list |-> list,
                       projected |-> getProjection(list, active, over, offset,
                                                   indentationWidth)]
  /\ UNCHANGED <<items, currentPosition>>

NextProjection ==
  \/ ApplyFlatten
  \/ ApplyProjectionAbsentId
  \/ ApplyProjectionWithoutActive
  \/ ApplyProjection
  \/ ApplyProjectionInPlace
  \/ ApplyDragDepth
  \/ ApplyRemoveChildrenOf

SpecProjection == InitProjection /\ [][NextProjection]_vars

----------------------------------------------------------------------------
(* Spec: the App with its SortableTree, driven by the user and by DndContext *)

\* the horizontal offsets DndContext reports (delta.x): whole indentation widths
DeltaXs == {k * indentationWidth : k \in (-MaxDragSteps)..MaxDragSteps}

\* const projected = activeId && overId ? getProjection(...) : null
HasProjected == activeId # NoId /\ overId # NoId

projected ==
  getProjection(flattenedItems(items, activeId), activeId, overId, offsetLeft, indentationWidth)

\* getMovementAnnouncement('onDragMove' | 'onDragOver', activeId, over): the
\* position it remembers, with the `projected` of the render the event came to
rememberedPosition(over) ==
  IF over = NoId \/ ~HasProjected
  THEN currentPosition
  ELSE [overId |-> over, depth |-> projected.depth]

Init ==
  /\ items \in InitialForests
  /\ Idle
  /\ last = [op |-> "init"]

\* the Remove button of a rendered row; the rows take no pointer events while a
\* drag is on (styles.disableInteraction)
HandleRemove ==
  /\ activeId = NoId
  /\ \E id \in sortedIds(items, NoId) :
       /\ items' = removeItem(items, id)
       /\ last' = [op |-> "handleRemove", before |-> items, id |-> id]
  /\ UNCHANGED <<activeId, overId, offsetLeft, currentPosition>>

\* the Collapse button of a rendered row that has children
HandleCollapse ==
  /\ activeId = NoId
  /\ \E id \in sortedIds(items, NoId) :
       /\ Len(findItemDeep(items, id).children) > 0
       /\ items' = setProperty(items, id, "collapsed", [lambda |-> "c => !c"])
       /\ last' = [op |-> "handleCollapse", before |-> items, id |-> id]
  /\ UNCHANGED <<activeId, overId, offsetLeft, currentPosition>>

\* DndContext starts a drag on a rendered row when no drag is on
HandleDragStart ==
  /\ activeId = NoId
  /\ \E id \in sortedIds(items, NoId) :
       LET list == flattenedItems(items, NoId)
           activeItem == At(list, FindIndexById(list, id))
       IN  /\ activeId' = id
           /\ overId' = id
           /\ currentPosition' = IF IsUndefined(activeItem) THEN currentPosition
                                 ELSE [overId |-> id, depth |-> activeItem.depth]
  /\ last' = [op |-> "handleDragStart"]
  /\ UNCHANGED <<items, offsetLeft>>

\* DndContext reports a pointer move during a drag
HandleDragMove ==
  /\ activeId # NoId
  /\ \E x \in DeltaXs : offsetLeft' = x
  /\ currentPosition' = rememberedPosition(overId)
  /\ last' = [op |-> "handleDragMove"]
  /\ UNCHANGED <<items, activeId, overId>>

\* DndContext reports a new droppable under the drag: a rendered row, or none
HandleDragOver ==
  /\ activeId # NoId
  /\ \E over \in sortedIds(items, activeId) \cup {NoId} :
       /\ overId' = over
       /\ currentPosition' = rememberedPosition(over)
  /\ last' = [op |-> "handleDragOver"]
  /\ UNCHANGED <<items, activeId, offsetLeft>>

\* resetState that leaves the horizontal offset as it is
resetStateKeepingOffset ==
  /\ overId' = NoId
  /\ activeId' = NoId
  /\ currentPosition' = NoPosition
  /\ UNCHANGED offsetLeft

\* resetState()
resetState ==
  /\ overId' = NoId
  /\ activeId' = NoId
  /\ offsetLeft' = 0
  /\ currentPosition' = NoPosition

\* handleMove that puts the item first in the root list, whatever the destination
handleMoveToTop(activeItem, destination) ==
  insertSubtreeAt(removeItem(items, activeItem.id), activeItem,
                  [kind |-> "firstChildOf", parent |-> NullItem])

\* App's handleMove(activeItem, destination)
handleMove(activeItem, destination) ==
  insertSubtreeAt(removeItem(items, activeItem.id), activeItem, destination)

\* handleDragEnd without `if (projected.isNoOp) return` (the older handler)
HandleDragEndWithoutNoOp ==
  /\ activeId # NoId
  /\ resetState
  /\ LET list == flattenedItems(items, activeId)
         activeItem == At(list, FindIndexById(list, activeId))
         moves == HasProjected /\ ~IsUndefined(activeItem)
     IN  /\ items' = IF moves THEN handleMove(activeItem.item, projected.destination)
                     ELSE items
         /\ last' = [op |-> "handleDragEnd", before |-> items, moved |-> moves,
                     handleMoveCalls |-> IF moves THEN 1 ELSE 0,
                     activeId |-> activeId, overId |-> overId, offsetLeft |-> offsetLeft,
                     destination |-> IF HasProjected THEN projected.destination
                                     ELSE [kind |-> "none"]]

\* DndContext ends the drag with a drop
HandleDragEnd ==
  /\ activeId # NoId
  /\ resetState
  /\ LET list == flattenedItems(items, activeId)
         activeItem == At(list, FindIndexById(list, activeId))
         moves == HasProjected /\ ~projected.isNoOp /\ ~IsUndefined(activeItem)
     IN  /\ items' = IF moves THEN handleMove(activeItem.item, projected.destination)
                     ELSE items
         /\ last' = [op |-> "handleDragEnd", before |-> items, moved |-> moves,
                     handleMoveCalls |-> IF moves THEN 1 ELSE 0,
                     activeId |-> activeId, overId |-> overId, offsetLeft |-> offsetLeft,
                     destination |-> IF HasProjected THEN projected.destination
                                     ELSE [kind |-> "none"]]

\* DndContext cancels the drag
HandleDragCancel ==
  /\ activeId # NoId
  /\ resetState
  /\ last' = [op |-> "handleDragCancel", before |-> items]
  /\ UNCHANGED items

Next ==
  \/ HandleRemove
  \/ HandleCollapse
  \/ HandleDragStart
  \/ HandleDragMove
  \/ HandleDragOver
  \/ HandleDragEnd
  \/ HandleDragCancel

Spec == Init /\ [][Next]_vars

----------------------------------------------------------------------------
(* SpecDrop: the end of one drag, from every state a drag can be in *)

RECURSIVE CollapsedHaveChildren(_)
\* onCollapse is given to a row only when the node has children, and a
\* collapsed node's children are not rendered, so they are never dragged out
\* or removed: only a node with children is collapsed
CollapsedHaveChildren(forest) ==
  \A i \in 1..Len(forest) :
    /\ forest[i].collapsed => Len(forest[i].children) > 0
    /\ CollapsedHaveChildren(forest[i].children)

\* a drag under way: started on a rendered row, over a row rendered during the
\* drag or over none, at one of the offsets, after a move event
InitDrop ==
  /\ items \in {f \in AllForests : CollapsedHaveChildren(f)}
  /\ activeId \in sortedIds(items, NoId)
  /\ overId \in sortedIds(items, activeId) \cup {NoId}
  /\ offsetLeft \in DeltaXs
  /\ currentPosition =
       IF overId = NoId
       THEN LET list == flattenedItems(items, NoId)
            IN  [overId |-> activeId, depth |-> At(list, FindIndexById(list, activeId)).depth]
       ELSE [overId |-> overId, depth |-> projected.depth]
  /\ last = [op |-> "handleDragMove"]

NextDrop ==
  \/ HandleDragEnd
  \/ HandleDragCancel

SpecDrop == InitDrop /\ [][NextDrop]_vars

----------------------------------------------------------------------------
(* SpecTermination: the nested calls of mapForest, for new nodes whose ids may *)
(* be ids of the forest                                                        *)

\* what the engine throws when the calls of mapForest nest without end
ThrownRangeError ==
  <<[id |-> "RangeError: Maximum call stack size exceeded",
     children |-> <<>>, collapsed |-> FALSE]>>

RECURSIVE mapForestCallDepth(_, _, _, _)
\* how deep the calls of mapForest(forest, fn, parent) nest, followed for
\* `budget` levels: fn(forest, parent) is applied first, then mapForest is
\* called on the children of every tree of its result
mapForestCallDepth(forest, fn, parent, budget) ==
  IF budget = 0 THEN 0
  ELSE LET mapped == CallListFn(fn, forest, parent)
           below == {mapForestCallDepth(mapped[i].children, fn, mapped[i], budget - 1) :
                       i \in 1..Len(mapped)}
       IN  1 + (IF below = {} THEN 0 ELSE CHOOSE d \in below : \A e \in below : e <= d)

\* the closure insertSubtreeAt gives to mapForest for a destination
insertSubtreeAtClosure(addend, destination) ==
  IF destination.kind = "after"
  THEN [lambda |-> "forestWithSubtreeInsertedAfter",
        addend |-> addend, sibling |-> destination.sibling]
  ELSE [lambda |-> "forestWithSubtreeInsertedFirstInside",
        addend |-> addend, parent |-> destination.parent]

\* the walk ends: the calls do not nest down to MaxCallDepth
Terminates(forest, fn) == mapForestCallDepth(forest, fn, NullItem, MaxCallDepth) < MaxCallDepth

\* the trees of one or two nodes with ids of the pool, in the forest or not
AnyTrees ==
  UNION { {f[1] : f \in {g \in ForestsOver(S) : Len(g) = 1 /\ NoneCollapsed(g)}} :
            S \in {T \in SUBSET Ids : Cardinality(T) \in {1, 2}} }

InitTermination ==
  /\ items \in InitialForests
  /\ Idle
  /\ last = [op |-> "input"]

\* insertSubtreeAt(items, addend, destination) for a new node whose ids may be
\* ids of the forest
ApplyInsertAnyIds ==
  /\ last.op = "input"
  /\ \E addend \in AnyTrees : \E destination \in Destinations(items) :
       LET fn == insertSubtreeAtClosure(addend, destination)
           ends == Terminates(items, fn)
       IN  /\ items' = IF ends THEN insertSubtreeAt(items, addend, destination) ELSE items
           /\ last' = [op |-> "insertSubtreeAtAnyIds", before |-> items,
                       addend |-> addend, destination |-> destination,
                       terminated |-> ends,
                       result |-> IF ends THEN insertSubtreeAt(items, addend, destination)
                                  ELSE ThrownRangeError]
  /\ UNCHANGED <<activeId, overId, offsetLeft, currentPosition>>

\* removeItem(items, id) and its nested calls
ApplyRemoveCalls ==
  /\ last.op = "input"
  /\ \E id \in Ids :
       LET ends == Terminates(items, [lambda |-> "removeItem", id |-> id])
       IN  /\ items' = IF ends THEN removeItem(items, id) ELSE items
           /\ last' = [op |-> "removeItemCalls", before |-> items, id |-> id,
                       terminated |-> ends]
  /\ UNCHANGED <<activeId, overId, offsetLeft, currentPosition>>

\* setProperty(items, id, 'collapsed', c => !c) and its nested calls
ApplySetPropertyCalls ==
  /\ last.op = "input"
  /\ \E id \in Ids :
       LET update == [lambda |-> "setProperty", id |-> id, property |-> "collapsed",
                      fn |-> [lambda |-> "c => !c"]]
           ends == Terminates(items, [lambda |-> "mapForestByTree", fn |-> update])
       IN  /\ items' = IF ends THEN setProperty(items, id, "collapsed", [lambda |-> "c => !c"])
                       ELSE items
           /\ last' = [op |-> "setPropertyCalls", before |-> items, id |-> id,
                       terminated |-> ends]
  /\ UNCHANGED <<activeId, overId, offsetLeft, currentPosition>>

NextTermination ==
  \/ ApplyInsertAnyIds
  \/ ApplyRemoveCalls
  \/ ApplySetPropertyCalls

SpecTermination == InitTermination /\ [][NextTermination]_vars

----------------------------------------------------------------------------
(* Claims about the forest algebra, checked under SpecAlgebra *)

\* the sibling list ids with x put right after s
InsertedAfterId(idseq, s, x) ==
  LET k == CHOOSE i \in 1..Len(idseq) : idseq[i] = s
  IN  SubSeq(idseq, 1, k) \o <<x>> \o SubSeq(idseq, k + 1, Len(idseq))

\* C1: for a forest F with unique ids and an id X in F, removeItem(F, X) holds
\* neither X nor a descendant of X (findItemDeep finds nothing), and every other
\* node of F is still there, once, under the same parent and in the same order
\* among its siblings.
C1_RemoveDeletesExactlyTheSubtree ==
  (last.op = "removeItem" /\ last.id \in NodeIds(last.before)) =>
    LET F == last.before
        X == last.id
    IN  /\ findItemDeep(items, X) = NullItem
        /\ NodeIds(items) = NodeIds(F) \ SubtreeIds(F, X)
        /\ UniqueIds(items)
        /\ \A n \in NodeIds(items) : ParentId(items, n) = ParentId(F, n)
        /\ \A p \in NodeIds(items) \cup {NoId} :
             ChildIds(items, p) = WithoutIds(ChildIds(F, p), {X})

\* a nested node with a child of its own has been removed, and nodes remain
C1_Witness ==
  /\ last.op = "removeItem"
  /\ last.id \in NodeIds(last.before)
  /\ DescendantIds(last.before, last.id) # {}
  /\ ParentId(last.before, last.id) # NoId
  /\ items # <<>>

\* C3: for a node X of F and a node S of F outside X's subtree,
\* insertSubtreeAt(removeItem(F, X.id), X, After(S)) puts X right after S in S's
\* own sibling list, X occurs exactly once (with its subtree), and every other
\* sibling list is the one of F without X.
C3_MoveAfterPlacesRightAfterSibling ==
  (/\ last.op = "handleMove"
   /\ last.destination.kind = "after"
   /\ last.destination.sibling.id \in NodeIds(last.before)
   /\ last.destination.sibling.id \notin SubtreeIds(last.before, last.addend.id)) =>
    LET F == last.before
        X == last.addend.id
        S == last.destination.sibling.id
        P == ParentId(F, S)
    IN  /\ ChildIds(items, P) = InsertedAfterId(WithoutIds(ChildIds(F, P), {X}), S, X)
        /\ CountId(items, X) = 1
        /\ UniqueIds(items)
        /\ NodeIds(items) = NodeIds(F)
        /\ findItemDeep(items, X) = last.addend
        /\ \A q \in (NodeIds(F) \cup {NoId}) \ {P} :
             ChildIds(items, q) = WithoutIds(ChildIds(F, q), {X})

\* a node with a child has been moved after a nested sibling that has a next sibling
C3_Witness ==
  /\ last.op = "handleMove"
  /\ last.destination.kind = "after"
  /\ last.destination.sibling.id \in NodeIds(last.before)
  /\ last.destination.sibling.id \notin SubtreeIds(last.before, last.addend.id)
  /\ ParentId(items, last.addend.id) # ParentId(last.before, last.addend.id)
  /\ Len(ChildIds(items, ParentId(items, last.addend.id))) = 2

\* C4: forestWithSubtreeInsertedFirstInside(F, N, null) is F with N prepended as
\* the first root; for a parent P of F that is not collapsed it is F with N as
\* the first child of P.  Every other sibling list is unchanged and N is
\* inserted exactly once.
C4_InsertFirstChildPrepends ==
  (/\ last.op = "insertSubtreeAt"
   /\ last.destination.kind = "firstChildOf") =>
    LET F == last.before
        N == last.addend
        P == last.destination.parent
    IN  /\ (P = NullItem => items = <<N>> \o F)
        /\ (P \in Nodes(F) /\ ~P.collapsed) =>
             /\ ChildIds(items, P.id) = <<N.id>> \o ChildIds(F, P.id)
             /\ \A q \in (NodeIds(F) \cup {NoId}) \ {P.id} :
                  ChildIds(items, q) = ChildIds(F, q)
             /\ CountId(items, N.id) = 1
             /\ findItemDeep(items, N.id) = N
             /\ Flags(items) = Flags(F) \cup Flags(<<N>>)

\* a node has been inserted into an expanded parent that already had a child
C4_Witness ==
  /\ last.op = "insertSubtreeAt"
  /\ last.destination.kind = "firstChildOf"
  /\ last.destination.parent \in Nodes(last.before)
  /\ ~last.destination.parent.collapsed
  /\ last.destination.parent.children # <<>>
  /\ Head(ChildIds(items, last.destination.parent.id)) = last.addend.id

\* C5: for a parent P of F whose collapsed flag is set,
\* forestWithSubtreeInsertedFirstInside(F, N, P) appends N as the last child of
\* P, after all the children P had.
C5_InsertIntoCollapsedAppends ==
  (/\ last.op = "insertSubtreeAt"
   /\ last.destination.kind = "firstChildOf"
   /\ last.destination.parent \in Nodes(last.before)
   /\ last.destination.parent.collapsed) =>
    LET F == last.before
        N == last.addend
        P == last.destination.parent
    IN  /\ ChildIds(items, P.id) = ChildIds(F, P.id) \o <<N.id>>
        /\ (ChildIds(F, P.id) # <<>> => Head(ChildIds(items, P.id)) # N.id)
        /\ CountId(items, N.id) = 1

\* a node has been inserted into a collapsed parent that already had a child
C5_Witness ==
  /\ last.op = "insertSubtreeAt"
  /\ last.destination.kind = "firstChildOf"
  /\ last.destination.parent \in Nodes(last.before)
  /\ last.destination.parent.collapsed
  /\ last.destination.parent.children # <<>>
  /\ last.addend.id \in NodeIds(items)

\* the id the operation recorded in `last` looks for
LookedFor ==
  IF last.op \in {"removeItem", "setProperty"} THEN last.id
  ELSE IF last.destination.kind = "after" THEN last.destination.sibling.id
  ELSE last.destination.parent.id

\* C6: when the id an operation looks for is absent from the forest, the result
\* equals the input: removeItem and setProperty with an absent id,
\* forestWithSubtreeInsertedAfter with an absent sibling and
\* forestWithSubtreeInsertedFirstInside with an absent parent that is not null
\* (the new node is inserted nowhere).
C6_AbsentIdIsIdentity ==
  (/\ last.op \in {"removeItem", "setProperty", "insertSubtreeAt"}
   /\ LookedFor # NoId
   /\ LookedFor \notin NodeIds(last.before)) =>
    items = last.before

\* an insertion after an absent sibling has been applied to a forest with a nested node
C6_Witness ==
  /\ last.op = "insertSubtreeAt"
  /\ last.destination.kind = "after"
  /\ last.destination.sibling.id \notin NodeIds(last.before)
  /\ \E n \in Nodes(last.before) : n.children # <<>>
  /\ items = last.before

----------------------------------------------------------------------------
(* Claims about the flattener and the projector, checked under SpecProjection *)

\* 1-based position of an id in a flattened sequence that holds it
PositionOf(list, id) == CHOOSE i \in 1..Len(list) : list[i].id = id

\* the sequence with the element at position a moved to position o (1-based),
\* the others keeping their order
Moved(list, a, o) ==
  LET without == [i \in 1..(Len(list) - 1) |-> IF i < a THEN list[i] ELSE list[i + 1]]
  IN  [i \in 1..Len(list) |->
         IF i < o THEN without[i] ELSE IF i = o THEN list[a] ELSE without[i - 1]]

\* the virtually-moved sequence of the projection recorded in `last`
ProjNewItems == Moved(last.list, PositionOf(last.list, activeId), PositionOf(last.list, overId))

ProjOverPos == PositionOf(last.list, overId)

ProjActiveDepth == last.list[PositionOf(last.list, activeId)].depth

\* previousItem.depth + 1, or 0 without a previous item
ProjMaxDepth == IF ProjOverPos > 1 THEN ProjNewItems[ProjOverPos - 1].depth + 1 ELSE 0

\* nextItem.depth, or 0 without a next item
ProjMinDepth ==
  IF ProjOverPos < Len(ProjNewItems) THEN ProjNewItems[ProjOverPos + 1].depth ELSE 0

\* C7: getProjection's maxDepth is previousItem.depth + 1 (0 without a previous
\* item), its minDepth is nextItem.depth (0 without a next item), and whenever
\* minDepth <= maxDepth its depth is activeItem.depth + dragDepthDelta brought
\* into [minDepth, maxDepth], for every horizontal offset.
C7_DepthIsClampedIntoBand ==
  last.op = "getProjection" =>
    LET wanted == ProjActiveDepth + getDragDepth(offsetLeft, indentationWidth)
        depth == last.projected.depth
    IN  /\ last.projected.maxDepth = ProjMaxDepth
        /\ last.projected.minDepth = ProjMinDepth
        /\ ProjMinDepth <= ProjMaxDepth =>
             /\ ProjMinDepth <= depth
             /\ depth <= ProjMaxDepth
             /\ depth = (IF wanted < ProjMinDepth THEN ProjMinDepth
                         ELSE IF wanted > ProjMaxDepth THEN ProjMaxDepth
                         ELSE wanted)

\* a far offset to the right has been cut down to a maxDepth of at least 1
C7_Witness ==
  /\ last.op = "getProjection"
  /\ offsetLeft = FarOffset
  /\ ProjMaxDepth >= 1
  /\ ProjMinDepth < ProjMaxDepth
  /\ last.projected.depth = ProjMaxDepth

\* the positions before the over position whose item is no deeper than the projected depth
ProjCandidates ==
  {i \in 1..(ProjOverPos - 1) : ProjNewItems[i].depth <= last.projected.depth}

\* the predecessor: the nearest of them
ProjPredecessor ==
  ProjNewItems[CHOOSE i \in ProjCandidates : \A j \in ProjCandidates : j <= i]

\* C8: getProjection's destination comes from the predecessor, the nearest item
\* before overIndex in the virtually-moved sequence whose depth is <= the
\* projected depth: FirstChildOf(null) when overIndex is 0, FirstChildOf(predecessor)
\* when predecessor.depth < depth, After(predecessor) when predecessor.depth = depth;
\* for overIndex > 0 a predecessor exists.
C8_DestinationFromPredecessor ==
  last.op = "getProjection" =>
    LET destination == last.projected.destination
    IN  IF ProjOverPos = 1
        THEN destination = [kind |-> "firstChildOf", parent |-> NullItem]
        ELSE /\ ProjCandidates # {}
             /\ ProjPredecessor.depth < last.projected.depth =>
                  destination = [kind |-> "firstChildOf", parent |-> ProjPredecessor.item]
             /\ ProjPredecessor.depth = last.projected.depth =>
                  destination = [kind |-> "after", sibling |-> ProjPredecessor.item]

\* the destination is After(predecessor) for a predecessor that is not the item
\* right before the over position: the scan went over a deeper item
C8_Witness ==
  /\ last.op = "getProjection"
  /\ ProjOverPos > 2
  /\ last.projected.destination.kind = "after"
  /\ last.projected.destination.sibling.id # ProjNewItems[ProjOverPos - 1].id

\* d is an integer nearest to offset / width
NearestInteger(d, offset, width) ==
  /\ 2 * d * width - 2 * offset <= width
  /\ 2 * offset - 2 * d * width <= width

\* offset / width lies halfway between two integers
IsTie(offset, width) == (2 * offset) % (2 * width) = width

\* C9 as claimed: the drag depth is the integer nearest to offset / width, and at
\* a .5 tie the one of larger magnitude (away from zero): -25 / 50 gives -1,
\* 25 / 50 gives 1.
C9_Claimed_TiesAwayFromZero ==
  last.op = "getDragDepth" =>
    /\ NearestInteger(last.dragDepth, offsetLeft, last.width)
    /\ (IsTie(offsetLeft, last.width) /\ offsetLeft < 0) =>
         2 * last.dragDepth * last.width < 2 * offsetLeft
    /\ (IsTie(offsetLeft, last.width) /\ offsetLeft > 0) =>
         2 * last.dragDepth * last.width > 2 * offsetLeft

\* C9 (amended): the drag depth is the integer nearest to offset / width, and at a
\* .5 tie the larger of the two (toward plus infinity, Math.round), for negative
\* as for positive offsets: -25 / 50 gives 0, 25 / 50 gives 1.
C9_TiesTowardPlusInfinity ==
  last.op = "getDragDepth" =>
    /\ NearestInteger(last.dragDepth, offsetLeft, last.width)
    /\ IsTie(offsetLeft, last.width) =>
         2 * last.dragDepth * last.width > 2 * offsetLeft
    /\ (offsetLeft = -25 /\ last.width = 50) => last.dragDepth = 0
    /\ (offsetLeft = 25 /\ last.width = 50) => last.dragDepth = 1

\* getDragDepth has been applied to a negative tie
C9_Witness ==
  /\ last.op = "getDragDepth"
  /\ offsetLeft = -25
  /\ last.width = indentationWidth
  /\ last.dragDepth = 0

\* the ids of the descendants of the nodes with an id in the set
DescendantsOfAll(forest, ids) == UNION {DescendantIds(forest, x) : x \in ids}

----------------------------------------------------------------------------
(* Claims about the move commit, checked under Spec *)

\* the id of the sibling or parent a destination names, NoId for the root list
AnchorId(destination) ==
  IF destination.kind = "after" THEN destination.sibling.id ELSE destination.parent.id

\* C2: in the move commit insertSubtreeAt(removeItem(F, X.id), X, D), with D the
\* destination projected for the filtered flattening of F with X active, the
\* result has exactly the node ids of F, each once (X and its subtree neither
\* doubled nor lost): the sibling or parent D names is never X or a descendant
\* of X and is still there after the removal.
C2_MoveCommitKeepsEveryNodeOnce ==
  (last.op = "handleDragEnd" /\ last.moved) =>
    LET F == last.before
        X == last.activeId
        anchor == AnchorId(last.destination)
    IN  /\ NodeIds(items) = NodeIds(F)
        /\ UniqueIds(items)
        /\ findItemDeep(items, X) = findItemDeep(F, X)
        /\ anchor \notin SubtreeIds(F, X)
        /\ anchor # NoId => anchor \in NodeIds(removeItem(F, X))

\* a node with a child has been dropped under another parent
C2_Witness ==
  /\ last.op = "handleDragEnd"
  /\ last.moved
  /\ DescendantIds(last.before, last.activeId) # {}
  /\ ParentId(items, last.activeId) # ParentId(last.before, last.activeId)
  /\ ParentId(items, last.activeId) # NoId

----------------------------------------------------------------------------
(* Claims about the flattener, checked under SpecProjection *)

\* position j of a flattened sequence lies in the run of deeper items that
\* follows an excluded item
Shadowed(list, ids, j) ==
  \E i \in 1..(j - 1) :
    /\ list[i].id \in ids
    /\ \A k \in (i + 1)..j : list[k].depth > list[i].depth

RECURSIVE Unshadowed(_, _, _)
\* the items from position j on that are not shadowed, in order
Unshadowed(list, ids, j) ==
  IF j > Len(list) THEN <<>>
  ELSE (IF Shadowed(list, ids, j) THEN <<>> ELSE <<list[j]>>)
         \o Unshadowed(list, ids, j + 1)

\* C11: on the flattening of a forest, removeChildrenOf removes exactly the items
\* that follow an excluded item with strictly greater depth, up to the next item
\* no deeper than it, which are exactly the descendants of the excluded ids; every
\* other item (the excluded items too) is kept, in the original order, also when
\* excluded ids are nested or adjacent.
C11_RemovesExactlyTheDeeperRuns ==
  last.op = "removeChildrenOf" =>
    /\ last.filtered = Unshadowed(last.list, last.ids, 1)
    /\ {last.list[j].id : j \in {k \in 1..Len(last.list) : Shadowed(last.list, last.ids, k)}}
         = DescendantsOfAll(items, last.ids)

\* two excluded ids, one nested in the other and with a child of its own
C11_Witness ==
  /\ last.op = "removeChildrenOf"
  /\ \E x \in last.ids : \E y \in last.ids :
       /\ y \in DescendantIds(items, x)
       /\ DescendantIds(items, y) # {}
  /\ Len(last.filtered) < Len(last.list)

\* the number of ancestors of the node with id x
DepthOf(forest, x) ==
  Cardinality({a \in NodeIds(forest) : x \in DescendantIds(forest, a)})

\* u comes before v from top to bottom: u is an ancestor of v, or u lies in the
\* subtree of an earlier sibling of the one whose subtree v lies in
Precedes(forest, u, v) ==
  \/ v \in DescendantIds(forest, u)
  \/ \E p \in NodeIds(forest) \cup {NoId} :
       LET sibs == ChildIds(forest, p)
       IN  \E a \in 1..Len(sibs) : \E b \in (a + 1)..Len(sibs) :
             /\ u \in SubtreeIds(forest, sibs[a])
             /\ v \in SubtreeIds(forest, sibs[b])

\* C12: flattenTree(F) lists every node of F exactly once, a node before its
\* children, children in sibling order and a whole subtree before the next
\* sibling, each item carrying its node, the node's id and collapsed flag, and
\* as depth the number of its ancestors (0 for a root, the parent's depth + 1
\* for a child); the empty forest gives the empty sequence.
C12_FlattenIsPreOrderWithDepths ==
  last.op = "flattenTree" =>
    LET list == last.list
    IN  /\ Len(list) = Cardinality(NodeIds(items))
        /\ {list[i].id : i \in 1..Len(list)} = NodeIds(items)
        /\ \A i \in 1..Len(list) :
             /\ list[i].item = findItemDeep(items, list[i].id)
             /\ list[i].collapsed = list[i].item.collapsed
             /\ list[i].depth = DepthOf(items, list[i].id)
             /\ ParentId(items, list[i].id) = NoId => list[i].depth = 0
             /\ \A j \in 1..Len(list) :
                  ParentId(items, list[i].id) = list[j].id
                    => list[i].depth = list[j].depth + 1
             /\ \A j \in (i + 1)..Len(list) : Precedes(items, list[i].id, list[j].id)
        /\ items = <<>> => list = <<>>

\* a root with a child, followed by another root
C12_Witness ==
  /\ last.op = "flattenTree"
  /\ Len(last.list) = 3
  /\ last.list[1].depth = 0
  /\ last.list[2].depth = 1
  /\ last.list[3].depth = 0

----------------------------------------------------------------------------
(* Claims about sequences of forest-algebra operations, checked under SpecSequence *)

\* C13: after any sequence of removeItem, setProperty on collapsed and move
\* commits from a forest with unique ids, the flattening of the forest starts at
\* depth 0, every item has depth 0 (a root) or the depth of its parent plus one,
\* and no item is more than one level deeper than the item before it.
C13_DepthsHaveNoGaps ==
  LET list == flattenTree(items)
  IN  /\ list # <<>> => list[1].depth = 0
      /\ \A i \in 1..Len(list) :
           /\ list[i].depth >= 0
           /\ ParentId(items, list[i].id) = NoId => list[i].depth = 0
           /\ \A j \in 1..Len(list) :
                ParentId(items, list[i].id) = list[j].id
                  => (j < i /\ list[i].depth = list[j].depth + 1)
           /\ i > 1 => list[i].depth <= list[i - 1].depth + 1

\* a move commit, after a collapse toggle, has left a node two levels deep
C13_Witness ==
  /\ last.op = "handleMove"
  /\ \E n \in Nodes(items) : n.collapsed
  /\ \E i \in 1..Len(flattenTree(items)) : flattenTree(items)[i].depth = 2

----------------------------------------------------------------------------
(* Claims about the projector's no-op flag, checked under SpecProjection *)

\* C14: getProjection's isNoOp is true exactly when overId is activeId and the
\* projected depth is the active item's depth; for an item of the filtered
\* flattening held over itself at offset 0 it is true for every indentation width.
C14_NoOpIffSameIdAndSameDepth ==
  /\ last.op = "getProjection" =>
       (last.projected.isNoOp <=>
          (overId = activeId /\ last.projected.depth = ProjActiveDepth))
  /\ last.op = "getProjectionInPlace" =>
       /\ last.projected.isNoOp
       /\ last.projected.depth = ProjActiveDepth

\* a nested row held over itself at offset 0, with an indentation width of 3
C14_Witness ==
  /\ last.op = "getProjectionInPlace"
  /\ last.width = 3
  /\ ProjActiveDepth >= 1
  /\ last.projected.isNoOp

----------------------------------------------------------------------------
(* Claims about the end of a drag, checked under SpecDrop *)

\* the projection the render before the drop had, from what `last` recorded
DropProjection ==
  getProjection(flattenedItems(last.before, last.activeId),
                last.activeId, last.overId, last.offsetLeft, indentationWidth)

\* activeId && overId: that render had a projection
DropHasProjection == last.activeId # NoId /\ last.overId # NoId

\* the active item is a row of that render
DropActiveIsVisible == last.activeId \in sortedIds(last.before, last.activeId)

C16_CancelDiscardsDragState ==
  /\ last.op = "handleDragCancel" => (items = last.before /\ Idle)
  /\ last.op = "handleDragEnd" => Idle

\* a cancelled drag, of a forest in which a drop could have moved a node
C16_Witness ==
  /\ last.op = "handleDragCancel"
  /\ items = last.before
  /\ Cardinality(NodeIds(items)) >= 2
  /\ Idle

----------------------------------------------------------------------------
(* The worked example [Home, Collections[Spring, Summer], About], checked under SpecProjection *)

\* C17: for [Home, Collections[Spring, Summer], About], getProjection over the
\* rows without Spring, with activeId Spring, overId About, offset 0 and
\* indentation width 50, gives depth 0 and destination After(Collections), and
\* the move commit with it gives [Home, Collections[Summer], Spring, About].
C17_SpringOverAboutGoesAfterCollections ==
  (/\ last.op = "getProjectionWithoutActive"
   /\ activeId = "Spring"
   /\ overId = "About"
   /\ offsetLeft = 0) =>
    /\ IdsOf(last.list) = <<"Home", "Collections", "Summer", "About">>
    /\ last.projected.depth = 0
    /\ last.projected.destination =
         [kind |-> "after", sibling |-> findItemDeep(items, "Collections")]
    /\ last.committed =
         <<Leaf("Home"), Branch("Collections", <<Leaf("Summer")>>), Leaf("Spring"), Leaf("About")>>

\* Spring projected over About at offset 0, Spring not among the rows
C17_Witness ==
  /\ last.op = "getProjectionWithoutActive"
  /\ items = CollectionsExample
  /\ activeId = "Spring"
  /\ overId = "About"
  /\ offsetLeft = 0
  /\ last.projected.destination.kind = "after"

----------------------------------------------------------------------------
(* Claims about subtree sizes, checked under SpecAlgebra *)

\* C18 as claimed: after removeItem(F, X) for X in F, every remaining node has
\* the subtree size it had in F.
C18_Claimed_SizesUnchanged ==
  (last.op = "removeItem" /\ last.id \in NodeIds(last.before)) =>
    \A n \in Nodes(items) :
      getSubtreeSize(n) = getSubtreeSize(findItemDeep(last.before, n.id))

\* C18: after removeItem(F, X) for X in F, X is gone, every remaining node that
\* is not an ancestor of X has the subtree size it had in F, and every ancestor
\* of X has its size in F less the subtree size of X.
C18_SizesShrinkOnAncestorsOnly ==
  (last.op = "removeItem" /\ last.id \in NodeIds(last.before)) =>
    /\ IsUndefined(findItemDeep(items, last.id))
    /\ \A n \in Nodes(items) :
         getSubtreeSize(n) =
           getSubtreeSize(findItemDeep(last.before, n.id))
             - (IF last.id \in DescendantIds(last.before, n.id)
                THEN getSubtreeSize(findItemDeep(last.before, last.id))
                ELSE 0)

\* a nested node removed, an ancestor and a node that is not an ancestor remain
C18_Witness ==
  /\ last.op = "removeItem"
  /\ last.id \in NodeIds(last.before)
  /\ \E n \in Nodes(items) : last.id \in DescendantIds(last.before, n.id)
  /\ \E n \in Nodes(items) : last.id \notin DescendantIds(last.before, n.id)

----------------------------------------------------------------------------
(* Claims about setProperty, checked under SpecAlgebra *)

RECURSIVE Shape(_)
\* a forest with the `collapsed` flag of every node cleared: its ids, order and nesting
Shape(forest) ==
  [i \in 1..Len(forest) |->
     [id |-> forest[i].id, children |-> Shape(forest[i].children), collapsed |-> FALSE]]

\* C19: setProperty(F, id, 'collapsed', fn) gives the node with that id
\* fn(its old flag) and changes nothing else: the ids, order and nesting of the
\* whole forest and the flag of every other node are as before (the whole
\* forest, when no node has the id).
C19_SetPropertyChangesOnlyTheTarget ==
  last.op = "setProperty" =>
    /\ Shape(items) = Shape(last.before)
    /\ IdsOf(flattenTree(items)) = IdsOf(flattenTree(last.before))
    /\ \A n \in Nodes(items) :
         n.collapsed = (IF n.id = last.id
                        THEN ~findItemDeep(last.before, n.id).collapsed
                        ELSE findItemDeep(last.before, n.id).collapsed)
    /\ last.id \notin NodeIds(last.before) => items = last.before

\* the flag of a nested node with a child of its own was set
C19_Witness ==
  /\ last.op = "setProperty"
  /\ ParentId(last.before, last.id) # NoId
  /\ DescendantIds(last.before, last.id) # {}
  /\ findItemDeep(items, last.id).collapsed
  /\ ~findItemDeep(last.before, last.id).collapsed

----------------------------------------------------------------------------
(* Claims about insertSubtreeAt's dispatch, checked under SpecAlgebra *)

\* C20: insertSubtreeAt with a destination whose kind is neither 'after' nor
\* 'firstChildOf' throws the error; it returns neither the input forest nor
\* any other forest.
C20_UnknownKindThrows ==
  last.op = "insertSubtreeAtUnknownKind" =>
    /\ last.result = ThrownError
    /\ last.result # last.before
    /\ last.result \notin AllForests

\* a node given with the kind 'before' to a forest that has nodes
C20_Witness ==
  /\ last.op = "insertSubtreeAtUnknownKind"
  /\ last.destination.kind = "before"
  /\ last.before # <<>>
  /\ last.result = ThrownError

----------------------------------------------------------------------------
(* Claims about ids the rows do not have, checked under SpecProjection *)

\* C21 as claimed: getProjection with an activeId or an overId that is not in
\* items raises an error instead of returning a projection.
C21_Claimed_AbsentIdRaises ==
  last.op = "getProjectionAbsentId" => IsThrown(last.projected)

\* an activeId no row has, over a row: a projection is returned
C21_Witness ==
  /\ last.op = "getProjectionAbsentId"
  /\ activeId \notin {last.list[i].id : i \in 1..Len(last.list)}
  /\ overId \in {last.list[i].id : i \in 1..Len(last.list)}
  /\ ~IsThrown(last.projected)
  /\ last.projected.destination.kind \in {"after", "firstChildOf"}

----------------------------------------------------------------------------
(* Claims about the rows of a drag, checked under SpecDrop *)

\* the ids a drag hides: the descendants of the active node and of every collapsed node
HiddenIds(forest, active) ==
  DescendantIds(forest, active)
    \cup UNION {DescendantIds(forest, n.id) : n \in {m \in Nodes(forest) : m.collapsed}}

\* C22: while a drag is on, the rows given to getProjection hold no descendant
\* of the active node and no descendant of a collapsed node, and neither the
\* hovered row nor the sibling or parent the projected destination names is
\* one of those hidden nodes.
C22_DragRowsHideSubtrees ==
  activeId # NoId =>
    LET list == flattenedItems(items, activeId)
        hidden == HiddenIds(items, activeId)
    IN  /\ \A i \in 1..Len(list) : list[i].id \notin hidden
        /\ overId \notin hidden
        /\ HasProjected => AnchorId(projected.destination) \notin hidden

\* a node with a child is dragged over another row, to land beside or inside a node
C22_Witness ==
  /\ activeId # NoId
  /\ DescendantIds(items, activeId) # {}
  /\ overId # NoId
  /\ overId # activeId
  /\ AnchorId(projected.destination) # NoId

----------------------------------------------------------------------------
(* The older utilities: flattened rows that carry parentId and index *)

RECURSIVE flattenWithParentIdOfRoot(_, _, _)
\* the older flatten handing its own parentId down instead of item.id
flattenWithParentIdOfRoot(list, parentId, depth) ==
  LET row(i) == [id |-> list[i].id, children |-> list[i].children,
                 collapsed |-> list[i].collapsed,
                 parentId |-> parentId, depth |-> depth, index |-> i - 1]
      step[i \in 0..Len(list)] ==
        IF i = 0 THEN <<>>
        ELSE step[i - 1] \o <<row(i)>>
               \o flattenWithParentIdOfRoot(list[i].children, parentId, depth + 1)
  IN  step[Len(list)]

RECURSIVE flattenWithParentId(_, _, _)
\* items.reduce((acc, item, index) =>
\*   [...acc, {...item, parentId, depth, index}, ...flatten(item.children, item.id, depth + 1)], [])
flattenWithParentId(list, parentId, depth) ==
  LET row(i) == [id |-> list[i].id, children |-> list[i].children,
                 collapsed |-> list[i].collapsed,
                 parentId |-> parentId, depth |-> depth, index |-> i - 1]
      step[i \in 0..Len(list)] ==
        IF i = 0 THEN <<>>
        ELSE step[i - 1] \o <<row(i)>>
               \o flattenWithParentId(list[i].children, list[i].id, depth + 1)
  IN  step[Len(list)]

\* the older flattenTree: flatten(items) with parentId = null, depth = 0
flattenTreeWithParentId(forest) == flattenWithParentId(forest, NoId, 0)

RECURSIVE removeChildrenOfByParentIdLoop(_, _)
\* items.filter(...) of the older removeChildrenOf, excludeParentIds growing on the way
removeChildrenOfByParentIdLoop(rest, excludeParentIds) ==
  IF rest = <<>> THEN <<>>
  ELSE LET item == Head(rest)
       IN  IF item.parentId # NoId /\ item.parentId \in excludeParentIds
           THEN removeChildrenOfByParentIdLoop(Tail(rest),
                  IF item.children # <<>> THEN excludeParentIds \cup {item.id}
                  ELSE excludeParentIds)
           ELSE <<item>> \o removeChildrenOfByParentIdLoop(Tail(rest), excludeParentIds)

\* the older removeChildrenOf(items, ids)
removeChildrenOfByParentId(list, ids) ==
  removeChildrenOfByParentIdLoop(list, ids)

\* the older component's flattenedItems
flattenedItemsWithParentId(forest, active) ==
  LET flattenedTree == flattenTreeWithParentId(forest)
      collapsed == SelectSeq(flattenedTree, LAMBDA e : e.collapsed /\ e.children # <<>>)
      collapsedIds == {collapsed[i].id : i \in 1..Len(collapsed)}
  IN  removeChildrenOfByParentId(flattenedTree,
        IF active # NoId THEN {active} \cup collapsedIds ELSE collapsedIds)

\* the older getProjection, which also returns parentId
getProjectionWithParentId(list, active, over, dragOffset, width) ==
  LET overItemIndex == FindIndexById(list, over)
      activeItemIndex == FindIndexById(list, active)
      activeItem == At(list, activeItemIndex)
      newItems == arrayMove(list, activeItemIndex, overItemIndex)
      previousItem == At(newItems, overItemIndex - 1)
      nextItem == At(newItems, overItemIndex + 1)
      dragDepth == getDragDepth(dragOffset, width)
      projectedDepth == (IF IsUndefined(activeItem) THEN 0 ELSE activeItem.depth) + dragDepth
      maxDepth == getMaxDepth(previousItem)
      minDepth == getMinDepth(nextItem)
      depth == clamp(projectedDepth, minDepth, maxDepth)
      predecessor == IF overItemIndex = 0 THEN UndefinedItem
                     ELSE findLast(newItems, depth, overItemIndex - 1)
      destination ==
        IF IsUndefined(predecessor) THEN [kind |-> "firstChildOf", parent |-> NullItem]
        ELSE IF predecessor.depth < depth
             THEN [kind |-> "firstChildOf", parent |-> predecessor]
             ELSE [kind |-> "after", sibling |-> predecessor]
      sliceEnd == IF overItemIndex < 0 THEN Max(Len(newItems) + overItemIndex, 0)
                  ELSE Min(overItemIndex, Len(newItems))
      sameDepth == {i \in 1..sliceEnd : newItems[i].depth = depth}
      parentId ==
        IF depth = 0 \/ IsUndefined(previousItem) THEN NoId
        ELSE IF depth = previousItem.depth THEN previousItem.parentId
        ELSE IF depth > previousItem.depth THEN previousItem.id
        ELSE IF sameDepth = {} THEN NoId
        ELSE newItems[CHOOSE i \in sameDepth : \A j \in sameDepth : j <= i].parentId
  IN  IF predecessor = TypeErrorItem
      THEN ThrownTypeError
      ELSE [depth |-> depth, maxDepth |-> maxDepth, minDepth |-> minDepth,
            destination |-> destination, parentId |-> parentId]

----------------------------------------------------------------------------
(* SpecParentId: the older projector applied once to the rows of a drag *)

InitParentId ==
  /\ items \in AllForests \cup {NestedExample, CollectionsExample}
  /\ Idle
  /\ last = [op |-> "input"]

\* the older getProjection(flattenedItems, activeId, overId, offsetLeft, indentationWidth)
\* for a rendered row as active item and a row rendered during that drag as over item
ApplyProjectionWithParentId ==
  /\ last.op = "input"
  /\ \E active \in IdsOfRows(flattenedItemsWithParentId(items, NoId)) :
       \E over \in IdsOfRows(flattenedItemsWithParentId(items, active)) :
         \E offset \in DragOffsets :
           /\ activeId' = active
           /\ overId' = over
           /\ offsetLeft' = offset
           /\ last' = [op |-> "getProjectionWithParentId",
                       list |-> flattenedItemsWithParentId(items, active),
                       projected |-> getProjectionWithParentId(
                                       flattenedItemsWithParentId(items, active),
                                       active, over, offset, indentationWidth)]
  /\ UNCHANGED <<items, currentPosition>>

NextParentId ==
  ApplyProjectionWithParentId

SpecParentId == InitParentId /\ [][NextParentId]_vars

----------------------------------------------------------------------------
(* SpecStartEnd: a drag started on a row and ended at once, in the component *)
(* that skips the commit of a no-op and in the older one that always commits *)

forestWithSubtreeInsertedFirstInsideOlder(forest, addend, parent) ==
  mapForest(forest,
            [lambda |-> "forestWithSubtreeInsertedFirstInsideOlder",
             addend |-> addend, parent |-> parent],
            NullItem)

\* the older insertSubtreeAt putting the addend first in the root list,
\* whatever the destination
insertSubtreeAtOlderAsFirstRoot(forest, addend, destination) ==
  forestWithSubtreeInsertedFirstInsideOlder(forest, addend, NullItem)

\* the older insertSubtreeAt
insertSubtreeAtOlder(forest, addend, destination) ==
  IF destination.kind = "after"
  THEN forestWithSubtreeInsertedAfter(forest, addend, destination.sibling)
  ELSE IF destination.kind = "firstChildOf"
  THEN forestWithSubtreeInsertedFirstInsideOlder(forest, addend, destination.parent)
  ELSE ThrownError

\* the older component's `projected`
projectedOlder ==
  getProjectionWithParentId(flattenedItemsWithParentId(items, activeId),
                            activeId, overId, offsetLeft, indentationWidth)

\* the older component's handleMove(activeItem, destination); the active item
\* is the flattened row, which keeps its parentId, depth and index
handleMoveOlder(activeItem, destination) ==
  insertSubtreeAtOlder(removeItem(items, activeItem.id), activeItem, destination)

InitStartEnd ==
  /\ items \in {f \in AllForests : CollapsedHaveChildren(f)}
  /\ Idle
  /\ last = [op |-> "render"]

\* the older handleDragStart
HandleDragStartOlder ==
  /\ activeId = NoId
  /\ \E id \in IdsOfRows(flattenedItemsWithParentId(items, NoId)) :
       LET list == flattenedItemsWithParentId(items, NoId)
           activeItem == At(list, FindIndexById(list, id))
       IN  /\ activeId' = id
           /\ overId' = id
           /\ currentPosition' = IF IsUndefined(activeItem) THEN currentPosition
                                 ELSE [parentId |-> activeItem.parentId, overId |-> id]
  /\ last' = [op |-> "handleDragStartOlder"]
  /\ UNCHANGED <<items, offsetLeft>>

\* the older handleDragEnd: it commits whenever there is a projection
HandleDragEndOlder ==
  /\ activeId # NoId
  /\ resetState
  /\ LET list == flattenedItemsWithParentId(items, activeId)
         activeItem == At(list, FindIndexById(list, activeId))
         moves == HasProjected /\ ~IsUndefined(activeItem)
     IN  /\ items' = IF moves THEN handleMoveOlder(activeItem, projectedOlder.destination)
                     ELSE items
         /\ last' = [op |-> "handleDragEndOlder", before |-> items, moved |-> moves,
                     activeId |-> activeId, overId |-> overId, offsetLeft |-> offsetLeft,
                     destination |-> IF HasProjected THEN projectedOlder.destination
                                     ELSE [kind |-> "none"]]

\* one drag per run: the start on a rendered row, then the end as the next event
NextStartEnd ==
  \/ last.op = "render" /\ HandleDragStart
  \/ last.op = "handleDragStart" /\ HandleDragEnd
  \/ last.op = "render" /\ HandleDragStartOlder
  \/ last.op = "handleDragStartOlder" /\ HandleDragEndOlder

SpecStartEnd == InitStartEnd /\ [][NextStartEnd]_vars

----------------------------------------------------------------------------
(* Claims about the older projector, checked under SpecParentId *)

\* the 1-based positions before the over position of the virtually-moved
\* sequence whose depth is d
EarlierAtDepth(d) == {j \in 1..(ProjOverPos - 1) : ProjNewItems[j].depth = d}

\* the parent the returned destination names: the parent itself for
\* firstChildOf, the parent of the sibling for after; NoId for the root list
DestinationParentId(destination) ==
  IF destination.kind = "firstChildOf" THEN destination.parent.id
  ELSE ParentId(items, destination.sibling.id)

\* C23: the older getProjection returns parentId none when depth is 0, and
\* otherwise the id of the nearest item before the over position of the
\* virtually-moved sequence whose depth is exactly depth - 1; in both cases it
\* is the parent the returned destination names.
C23_ParentIdIsNearestShallowerRow ==
  last.op = "getProjectionWithParentId" =>
    LET p == last.projected
        up == EarlierAtDepth(p.depth - 1)
    IN  /\ p.depth = 0 => p.parentId = NoId
        /\ p.depth > 0 =>
             /\ up # {}
             /\ p.parentId = ProjNewItems[CHOOSE j \in up : \A k \in up : k <= j].id
        /\ p.parentId = DestinationParentId(p.destination)

\* parentId comes from the backward search: the depth is positive and below
\* that of the previous item
C23_Witness ==
  /\ last.op = "getProjectionWithParentId"
  /\ last.projected.depth > 0
  /\ ProjOverPos > 1
  /\ last.projected.depth < ProjNewItems[ProjOverPos - 1].depth
  /\ last.projected.destination.kind = "after"
  /\ last.projected.parentId # NoId

----------------------------------------------------------------------------
(* Claims about what a committed drop shows, checked under SpecDrop *)

\* the id and depth of every row, in order
IdsAndDepths(list) == [i \in 1..Len(list) |-> <<list[i].id, list[i].depth>>]

\* the rows the render before the drop showed
DropRows == flattenedItems(last.before, last.activeId)

\* what the projection showed: the rows with the active one moved to the over
\* position and given the projected depth
DropShown ==
  LET o == PositionOf(DropRows, last.overId)
      moved == Moved(DropRows, PositionOf(DropRows, last.activeId), o)
  IN  [i \in 1..Len(moved) |->
         <<moved[i].id, IF i = o THEN DropProjection.depth ELSE moved[i].depth>>]

\* the destination puts the node below a collapsed parent
DropIntoCollapsed ==
  /\ last.destination.kind = "firstChildOf"
  /\ last.destination.parent.collapsed

\* C24: when the parent receiving the node is not collapsed, flattening the
\* committed forest and hiding the descendants of the moved node and of
\* collapsed nodes gives the virtually-moved sequence with the active item's
\* depth replaced by the projected depth.
C24_CommitShowsTheProjection ==
  (last.op = "handleDragEnd" /\ last.moved /\ ~DropIntoCollapsed) =>
    IdsAndDepths(flattenedItems(items, last.activeId)) = DropShown

\* a node with a child dropped elsewhere, one level deeper than it was
C24_Witness ==
  /\ last.op = "handleDragEnd"
  /\ last.moved
  /\ ~DropIntoCollapsed
  /\ last.overId # last.activeId
  /\ DescendantIds(items, last.activeId) # {}
  /\ last.destination.kind = "firstChildOf"
  /\ last.destination.parent.id # NoId
  /\ items # last.before

----------------------------------------------------------------------------
(* Claims about the depth band, checked under SpecProjection *)

\* C25: for every forest with unique ids and every active and over item among
\* the rows of the drag (the descendants of the active node and of collapsed
\* nodes hidden), getProjection computes minDepth <= maxDepth: the band is
\* never empty, the depth lies in it and is >= 0.
C25_DepthBandIsNeverEmpty ==
  last.op = "getProjection" =>
    /\ ~IsThrown(last.projected)
    /\ 0 <= last.projected.minDepth
    /\ last.projected.minDepth <= last.projected.maxDepth
    /\ last.projected.minDepth <= last.projected.depth
    /\ last.projected.depth <= last.projected.maxDepth

\* the active row is put between a parent and its child: the band is the one
\* depth of that child
C25_Witness ==
  /\ last.op = "getProjection"
  /\ overId # activeId
  /\ ProjOverPos > 1
  /\ ProjOverPos < Len(ProjNewItems)
  /\ ProjNewItems[ProjOverPos + 1].depth = ProjNewItems[ProjOverPos - 1].depth + 1
  /\ last.projected.minDepth = last.projected.maxDepth
  /\ last.projected.depth = last.projected.minDepth
  /\ last.projected.depth > 0

----------------------------------------------------------------------------
(* Claims about a drag ended where it started, checked under SpecStartEnd *)

RECURSIVE AsTreeItems(_)
\* the forest as TreeItems: the id, children and collapsed of every node
AsTreeItems(forest) ==
  [i \in 1..Len(forest) |->
     [id |-> forest[i].id, collapsed |-> forest[i].collapsed,
      children |-> AsTreeItems(forest[i].children)]]

----------------------------------------------------------------------------
(* Claims about the no-op flag, checked under SpecProjection *)

\* the forest after committing the recorded projection: remove, then insert at
\* the projected destination
ProjCommitted == handleMove(findItemDeep(items, activeId), last.projected.destination)

\* C27: for every forest with unique ids and every projection over the rows of
\* a drag, if isNoOp is false then the move commit (remove, then insert at the
\* projected destination) yields a forest different from the original: every
\* drop that would leave the forest unchanged is reported as a no-op.
C27_NotNoOpChangesTheForest ==
  last.op = "getProjection" =>
    (~last.projected.isNoOp => ProjCommitted # items)

\* a row projected onto itself at another depth: not a no-op, and the commit
\* re-parents it
C27_Witness ==
  /\ last.op = "getProjection"
  /\ overId = activeId
  /\ ~last.projected.isNoOp
  /\ last.projected.depth # ProjActiveDepth
  /\ ProjCommitted # items
  /\ NodeIds(ProjCommitted) = NodeIds(items)

----------------------------------------------------------------------------
(* Claims about termination, checked under SpecTermination *)

\* the walk meets the destination inside the new node it has just inserted:
\* the parent's id is in the forest and is the id of the new node or of a node
\* below it, or the sibling's id is in the forest and is the id of a node below
\* the new node
MeetsDestinationInAddend(forest, addend, destination) ==
  IF destination.kind = "after"
  THEN /\ destination.sibling.id \in NodeIds(forest)
       /\ destination.sibling.id \in NodeIds(addend.children)
  ELSE /\ destination.parent.id # NoId
       /\ destination.parent.id \in NodeIds(forest)
       /\ destination.parent.id \in NodeIds(<<addend>>)

\* C28 as claimed: insertSubtreeAt terminates for every forest, new node and
\* destination, also when the id of the new node or an id inside its subtree
\* is the id of the destination's parent or sibling.
C28_Claimed_InsertAlwaysTerminates ==
  last.op = "insertSubtreeAtAnyIds" => last.terminated

\* C28: removeItem and setProperty terminate on every forest; insertSubtreeAt
\* terminates exactly when the walk does not meet the destination inside the
\* new node: not when the parent's id is in the forest and in the new node's
\* subtree (its own id included), nor when the sibling's id is in the forest
\* and below the new node. A new node whose own id is the sibling's id is
\* inserted and the walk ends.
C28_InsertTerminatesUnlessAddendHoldsDestination ==
  /\ last.op \in {"removeItemCalls", "setPropertyCalls"} => last.terminated
  /\ last.op = "insertSubtreeAtAnyIds" =>
       /\ last.terminated <=>
            ~MeetsDestinationInAddend(last.before, last.addend, last.destination)
       /\ (last.destination.kind = "after"
             /\ NodeIds(last.addend.children) \cap NodeIds(last.before) = {})
            => last.terminated
       /\ NodeIds(<<last.addend>>) \cap NodeIds(last.before) = {} => last.terminated

\* a new node with the id of the parent it is to go into: the calls nest
\* without end and nothing is returned
C28_Witness ==
  /\ last.op = "insertSubtreeAtAnyIds"
  /\ last.destination.kind = "firstChildOf"
  /\ last.destination.parent.id \in NodeIds(last.before)
  /\ last.addend.id = last.destination.parent.id
  /\ ~last.terminated
  /\ last.result = ThrownRangeError
  /\ items = last.before

====
